---- MODULE Spec2Model ----
(***************************************************************************)
(* Model of the documentation scraper in src/src/main.rs.                  *)
(*                                                                         *)
(* Strings are sequences of one-character strings, so that the sanitizer   *)
(* and the URL parser work on characters as the code does.  An Option is   *)
(* a sequence of length 0 (None) or 1 (Some).                              *)
(***************************************************************************)
EXTENDS Integers, Sequences, FiniteSets, TLC

\* Longest link list the remote engine returns in the model.
MaxLinks == 2

\* Longest string given to the sanitizer on its own.
MaxSanLen == 3

---------------------------------------------------------------------------
\* Option<T>

None == << >>
Some(x) == << x >>
IsSome(o) == Len(o) = 1
Unwrap(o) == o[1]

---------------------------------------------------------------------------
\* Characters

Uppers == << "A", "B", "C", "D", "E", "F", "G", "H", "I", "J", "K", "L", "M",
             "N", "O", "P", "Q", "R", "S", "T", "U", "V", "W", "X", "Y", "Z" >>
Lowers == << "a", "b", "c", "d", "e", "f", "g", "h", "i", "j", "k", "l", "m",
             "n", "o", "p", "q", "r", "s", "t", "u", "v", "w", "x", "y", "z" >>

IsUpper(c) == \E i \in 1..26 : Uppers[i] = c
IsLower(c) == \E i \in 1..26 : Lowers[i] = c
IsAlpha(c) == IsUpper(c) \/ IsLower(c)
ToLowerChar(c) == IF IsUpper(c) THEN Lowers[CHOOSE i \in 1..26 : Uppers[i] = c] ELSE c
ToLower(s) == [i \in 1..Len(s) |-> ToLowerChar(s[i])]

\* Index of the first character of s at or after from that is in set,
\* Len(s) + 1 when there is none.
FindFirst(s, set, from) ==
    IF \E i \in from..Len(s) : s[i] \in set
    THEN CHOOSE i \in from..Len(s) :
            /\ s[i] \in set
            /\ \A j \in from..(i - 1) : s[j] \notin set
    ELSE Len(s) + 1

---------------------------------------------------------------------------
\* Filename Sanitizer

\* Mutation of invalid_chars: the extension separator and the space are missing.
invalid_chars_short == << "/", "\\", "?", "%", "*", ":", "|", "\"", "<", ">" >>

invalid_chars == << "/", "\\", "?", "%", "*", ":", "|", "\"", "<", ">", ".", " " >>

\* str::replace(c, "_")
Replace(s, c) == [i \in 1..Len(s) |-> IF s[i] = c THEN "_" ELSE s[i]]

RECURSIVE SanitizeFrom(_, _)
SanitizeFrom(sanitized, k) ==
    IF k > Len(invalid_chars) THEN sanitized
    ELSE SanitizeFrom(Replace(sanitized, invalid_chars[k]), k + 1)

sanitize_filename(filename) == SanitizeFrom(filename, 1)

---------------------------------------------------------------------------
\* URL Normalizer: Url::parse, Url::domain, Url::set_fragment(None) and
\* Url::to_string on URLs without user info, port digits, percent escapes
\* and dot segments.

SpecialSchemes == { << "h", "t", "t", "p" >>, << "h", "t", "t", "p", "s" >>,
                    << "f", "t", "p" >>, << "w", "s" >>, << "w", "s", "s" >> }

SchemeChars == { "+", "-", "." }

ParseErr == [ok |-> FALSE]
ParseOk(u) == [ok |-> TRUE, url |-> u]

\* The part of s from index a to index b, both included.
Slice(s, a, b) == IF a > b THEN << >> ELSE SubSeq(s, a, b)

\* Path, query and fragment of the remainder of the input that starts at from.
ParseTail(s, from) ==
    LET qf == FindFirst(s, { "?", "#" }, from)
        h  == FindFirst(s, { "#" }, from)
    IN [ path     |-> Slice(s, from, qf - 1),
         query    |-> IF qf <= Len(s) /\ s[qf] = "?"
                      THEN Some(Slice(s, qf + 1, h - 1)) ELSE None,
         fragment |-> IF h <= Len(s) THEN Some(Slice(s, h + 1, Len(s))) ELSE None ]

\* First index at or after from that is not a slash.
RECURSIVE SkipSlashes(_, _)
SkipSlashes(s, from) ==
    IF from <= Len(s) /\ s[from] \in { "/", "\\" } THEN SkipSlashes(s, from + 1) ELSE from

UrlParse(s) ==
    LET colon == FindFirst(s, { ":" }, 1)
    IN IF \/ Len(s) = 0
          \/ ~ IsAlpha(s[1])
          \/ colon > Len(s)
          \/ \E i \in 2..(colon - 1) : ~ (IsAlpha(s[i]) \/ s[i] \in SchemeChars)
       THEN ParseErr    \* RelativeUrlWithoutBase
       ELSE
         LET scheme == ToLower(Slice(s, 1, colon - 1))
         IN IF scheme \in SpecialSchemes
            THEN
              LET hs   == SkipSlashes(s, colon + 1)
                  he   == FindFirst(s, { "/", "\\", "?", "#" }, hs)
                  auth == Slice(s, hs, he - 1)
                  pc0  == FindFirst(auth, { ":" }, 1)
                  host == Slice(auth, 1, pc0 - 1)
                  tail == ParseTail(s, he)
              IN IF Len(host) = 0 THEN ParseErr            \* EmptyHost
                 ELSE IF pc0 < Len(auth) THEN ParseErr     \* InvalidPort
                 ELSE ParseOk([ scheme   |-> scheme,
                                host     |-> Some(ToLower(host)),
                                path     |-> IF Len(tail.path) = 0 THEN << "/" >>
                                             ELSE tail.path,
                                query    |-> tail.query,
                                fragment |-> tail.fragment ])
            ELSE IF /\ colon + 2 <= Len(s)
                    /\ s[colon + 1] = "/"
                    /\ s[colon + 2] = "/"
            THEN
              LET hs   == colon + 3
                  he   == FindFirst(s, { "/", "?", "#" }, hs)
                  auth == Slice(s, hs, he - 1)
                  pc0  == FindFirst(auth, { ":" }, 1)
                  host == Slice(auth, 1, pc0 - 1)
                  tail == ParseTail(s, he)
              IN IF pc0 < Len(auth) THEN ParseErr          \* InvalidPort
                 ELSE ParseOk([ scheme   |-> scheme,
                                host     |-> IF Len(host) = 0 THEN None ELSE Some(host),
                                path     |-> tail.path,
                                query    |-> tail.query,
                                fragment |-> tail.fragment ])
            ELSE
              LET tail == ParseTail(s, colon + 1)
              IN ParseOk([ scheme   |-> scheme,
                           host     |-> None,
                           path     |-> tail.path,
                           query    |-> tail.query,
                           fragment |-> tail.fragment ])

\* Url::domain
UrlDomain(u) == u.host

\* Url::set_fragment(None)
UrlSetFragmentNone(u) == [u EXCEPT !.fragment = None]

\* Url::to_string
UrlToString(u) ==
    u.scheme \o << ":" >>
      \o (IF IsSome(u.host) THEN << "/", "/" >> \o Unwrap(u.host) ELSE << >>)
      \o u.path
      \o (IF IsSome(u.query) THEN << "?" >> \o Unwrap(u.query) ELSE << >>)
      \o (IF IsSome(u.fragment) THEN << "#" >> \o Unwrap(u.fragment) ELSE << >>)

---------------------------------------------------------------------------
\* Inputs of a run

http_a_b     == << "h", "t", "t", "p", ":", "/", "/", "a", ".", "b" >>
mailto_x     == << "m", ":", "x" >>
no_scheme    == << "a", ".", "b" >>

\* Start URLs given on the command line: a well-formed one, one that parses
\* but has no domain, and one that does not parse.
StartUrls == { http_a_b, mailto_x, no_scheme }

link_x       == http_a_b \o << "/", "x" >>
link_x_frag  == http_a_b \o << "/", "x", "#", "f" >>
link_root    == http_a_b
link_y_upper == << "h", "t", "t", "p", ":", "/", "/", "A", ".", "b", "/", "y" >>
link_sub     == << "h", "t", "t", "p", ":", "/", "/", "c", ".", "a", ".", "b", "/", "x" >>
link_other   == << "h", "t", "t", "p", ":", "/", "/", "c", ".", "d", "/", "x" >>
link_rel     == << "/", "x" >>

\* Candidate links the remote engine may list.
Candidates == { link_x, link_x_frag, link_root, link_y_upper, link_sub,
                link_other, link_rel, mailto_x }

LinkLists == UNION { [1..n -> Candidates] : n \in 0..MaxLinks }

Titles    == { << >>, << "a", "/", "b" >>, << "a", " ", "b" >> }
Markdowns == { << "m" >>, << "n" >> }
Warnings  == { << "w" >> }

OptionOf(S) == { None } \cup { Some(x) : x \in S }

\* Failures of make_api_request: the transport fails, the status is not a
\* success, the body does not deserialize.
RequestErrors == { "Err: request send", "Err: API request failed with status",
                   "Err: response body" }

\* ScrapeResponse.data of a "links" request
LinksResponses ==
    { [ links |-> l, markdown |-> None, title |-> None, source_url |-> None,
        warning |-> None ] : l \in OptionOf(LinkLists) }

\* ScrapeResponse.data of a "markdown" request for url
PageResponses(url) ==
    { [ links |-> None, markdown |-> m, title |-> t, source_url |-> s,
        warning |-> w ] :
        m \in OptionOf(Markdowns), t \in OptionOf(Titles),
        s \in OptionOf({ url }), w \in OptionOf(Warnings) }

---------------------------------------------------------------------------
\* State

VARIABLES
    api_key,          \* FIRECRAWL_API_KEY: TRUE when set
    args,             \* Option: the first command-line argument
    pc,               \* position of the single thread of control
    result,           \* "running", "Ok" or the error main returns
    output_dir,       \* Option: path returned by create_domain_directory
    dirs,             \* directories on disk
    files,            \* files on disk: records of a path and a content
    requests,         \* extraction requests issued so far
    scrape_response,  \* Option: data of the last response received
    doc_urls,         \* links returned by extract_doc_links
    idx,              \* index in doc_urls of the link the loop is at
    stdout,           \* lines printed with println!
    stderr,           \* lines printed with eprintln!
    san_input,        \* a string given to sanitize_filename on its own
    san_output        \* what sanitize_filename returned for it, then for its own result

vars == << api_key, args, pc, result, output_dir, dirs, files, requests,
           scrape_response, doc_urls, idx, stdout, stderr, san_input, san_output >>

\* chrono::Utc::now(), as a logical clock that advances with every request.
UtcNow == Len(requests)

Init ==
    /\ api_key \in BOOLEAN
    /\ args \in OptionOf(StartUrls)
    /\ pc = "Main"
    /\ result = "running"
    /\ output_dir = None
    /\ dirs = { }
    /\ files = { }
    /\ requests = << >>
    /\ scrape_response = None
    /\ doc_urls = << >>
    /\ idx = 1
    /\ stdout = << >>
    /\ stderr = << >>
    /\ san_input = << >>
    /\ san_output = << >>

\* The run ends with the error e.
Fail(e) ==
    /\ pc' = "Done"
    /\ result' = e

start_url == Unwrap(args)

---------------------------------------------------------------------------
\* main: configuration

ConfigErrors == { "Err: FIRECRAWL_API_KEY must be set in .env file",
                  "Err: Usage: cargo run -- <url>" }

Main ==
    /\ pc = "Main"
    /\ IF ~ api_key
       THEN Fail("Err: FIRECRAWL_API_KEY must be set in .env file")
       ELSE IF ~ IsSome(args)
       THEN Fail("Err: Usage: cargo run -- <url>")
       ELSE /\ pc' = "Start"
            /\ UNCHANGED result
    /\ UNCHANGED << san_input, san_output, api_key, args, output_dir, dirs, files, requests,
                    scrape_response, doc_urls, idx, stdout, stderr >>

---------------------------------------------------------------------------
\* Output Directory Resolver

unknown == << "u", "n", "k", "n", "o", "w", "n" >>

\* The directory name create_domain_directory derives from a parsed URL.
DirName(parsed_url) ==
    LET domain == IF IsSome(UrlDomain(parsed_url)) THEN Unwrap(UrlDomain(parsed_url))
                  ELSE unknown
    IN sanitize_filename(domain)

DirectoryErrors == { "Err: Failed to create output directory: parse",
                     "Err: Failed to create output directory: io" }

\* Mutation of DirectoryFailed: the error is dropped and the run goes on.
DirectoryFailedIgnored(e) ==
    /\ pc' = "DirectoryResolved"
    /\ UNCHANGED result

\* The ? on the result of create_domain_directory in scrape_documentation.
DirectoryFailed(e) == Fail(e)

CreateDomainDirectory ==
    /\ pc = "Start"
    /\ LET parsed == UrlParse(start_url)
       IN IF ~ parsed.ok
          THEN /\ DirectoryFailed("Err: Failed to create output directory: parse")
               /\ UNCHANGED << output_dir, dirs, stdout >>
          ELSE \/ \* fs::create_dir_all fails
                  /\ DirectoryFailed("Err: Failed to create output directory: io")
                  /\ UNCHANGED << output_dir, dirs, stdout >>
               \/ /\ dirs' = dirs \cup { DirName(parsed.url) }
                  /\ output_dir' = Some(DirName(parsed.url))
                  /\ stdout' = Append(stdout, << "Saving files to", DirName(parsed.url) >>)
                  /\ pc' = "DirectoryResolved"
                  /\ UNCHANGED result
    /\ UNCHANGED << san_input, san_output, api_key, args, files, requests, scrape_response, doc_urls,
                    idx, stderr >>

---------------------------------------------------------------------------
\* Link Discovery

\* Mutation of FilterLink: the domain of the candidate is not compared.
FilterLinkAnyDomain(link, base_domain) ==
    LET parsed == UrlParse(link)
    IN IF parsed.ok /\ IsSome(UrlDomain(parsed.url))
       THEN Some(UrlToString(UrlSetFragmentNone(parsed.url)))
       ELSE None

\* The filter_map closure of extract_doc_links: the normalized link, or None.
FilterLink(link, base_domain) ==
    LET parsed == UrlParse(link)
    IN IF parsed.ok /\ UrlDomain(parsed.url) = Some(base_domain)
       THEN Some(UrlToString(UrlSetFragmentNone(parsed.url)))
       ELSE None

\* collect::<HashSet<_>>() of the filtered links
LinkSet(links, base_domain) ==
    { Unwrap(FilterLink(links[i], base_domain)) :
        i \in { j \in 1..Len(links) : IsSome(FilterLink(links[j], base_domain)) } }

\* into_iter().collect() of a HashSet: its elements once each, in any order.
Orderings(S) ==
    { f \in [1..Cardinality(S) -> S] : \A i, j \in 1..Cardinality(S) : f[i] = f[j] => i = j }

\* Mutation of DocLinks: the filtered links are collected into a Vec, in
\* the order of the response, without passing through a HashSet.
DocLinksVec(links, base_domain) ==
    { [ k \in 1..Cardinality({ j \in 1..Len(links) : IsSome(FilterLink(links[j], base_domain)) })
          |-> Unwrap(FilterLink(
                links[CHOOSE i \in 1..Len(links) :
                        /\ IsSome(FilterLink(links[i], base_domain))
                        /\ Cardinality({ j \in 1..i :
                              IsSome(FilterLink(links[j], base_domain)) }) = k],
                base_domain)) ] }

\* The sequences extract_doc_links may return for the links of a response.
DocLinks(links, base_domain) == Orderings(LinkSet(links, base_domain))

DiscoveryErrors == RequestErrors \cup { "Err: Failed to parse start URL",
                                        "Err: Invalid base domain" }

\* Mutation of DiscoveryFailed: the error is dropped and the run goes on
\* with no links.
DiscoveryFailedIgnored(e) ==
    /\ pc' = "LinksDiscovered"
    /\ UNCHANGED result

\* The ? on the result of extract_doc_links in scrape_documentation.
DiscoveryFailed(e) == Fail(e)

\* extract_doc_links up to the await of make_api_request
ExtractDocLinksSend ==
    /\ pc = "DirectoryResolved"
    /\ requests' = Append(requests, [ url |-> start_url, formats |-> "links" ])
    /\ pc' = "AwaitLinks"
    /\ UNCHANGED << san_input, san_output, api_key, args, result, output_dir, dirs, files,
                    scrape_response, doc_urls, idx, stdout, stderr >>

\* extract_doc_links from the completion of make_api_request on
ExtractDocLinksRecv ==
    /\ pc = "AwaitLinks"
    /\ \/ \E e \in RequestErrors :
             /\ DiscoveryFailed(e)
             /\ UNCHANGED << scrape_response, doc_urls, stdout >>
       \/ \E resp \in LinksResponses :
             /\ scrape_response' = Some(resp)
             /\ LET base_url == UrlParse(start_url)
                    links    == IF IsSome(resp.links) THEN Unwrap(resp.links) ELSE << >>
                IN IF ~ base_url.ok
                   THEN /\ DiscoveryFailed("Err: Failed to parse start URL")
                        /\ UNCHANGED << doc_urls, stdout >>
                   ELSE IF ~ IsSome(UrlDomain(base_url.url))
                   THEN /\ DiscoveryFailed("Err: Invalid base domain")
                        /\ UNCHANGED << doc_urls, stdout >>
                   ELSE /\ doc_urls' \in DocLinks(links, Unwrap(UrlDomain(base_url.url)))
                        /\ stdout' = Append(stdout, << "Found", Len(doc_urls') >>)
                        /\ pc' = "LinksDiscovered"
                        /\ UNCHANGED result
    /\ UNCHANGED << san_input, san_output, api_key, args, output_dir, dirs, files, requests, idx, stderr >>

---------------------------------------------------------------------------
\* Page Persister

md_suffix   == << ".", "m", "d" >>
page_prefix == << "p", "a", "g", "e", "_" >>

\* Mutation of Filename: the title and the URL are used as they come.
FilenameRaw(data, url) ==
    IF IsSome(data.title)
    THEN Unwrap(data.title) \o md_suffix
    ELSE page_prefix \o url \o md_suffix

\* The filename process_page chooses for the response data of url.
Filename(data, url) ==
    IF IsSome(data.title)
    THEN sanitize_filename(Unwrap(data.title)) \o md_suffix
    ELSE page_prefix \o sanitize_filename(url) \o md_suffix

\* Path::join: an absolute second component replaces the first.
PathJoin(dir, name) ==
    IF Len(name) > 0 /\ name[1] = "/" THEN name ELSE dir \o << "/" >> \o name

\* create_frontmatter: the lines of the block, written at time now.
create_frontmatter(data, now) ==
    << << "---" >> >>
      \o (IF IsSome(data.title) THEN << << "title", Unwrap(data.title) >> >> ELSE << >>)
      \o (IF IsSome(data.source_url) THEN << << "url", Unwrap(data.source_url) >> >> ELSE << >>)
      \o << << "scrapeDate", now >>, << "---" >>, << "" >> >>

\* The file an interrupted write leaves behind.
EmptyFile == [ frontmatter |-> << >>, markdown |-> << >> ]

\* fs::write(path, content) that succeeds: the file is created or replaced.
FsWrite(fs, path, content) ==
    { f \in fs : f.path # path } \cup { [ path |-> path, content |-> content ] }

\* What a failed fs::write may leave behind: nothing changed (the open
\* failed) or the file truncated (the open succeeded, the write did not).
FsWriteFailed(fs, path) ==
    { fs, FsWrite(fs, path, EmptyFile) }

\* The link the loop of scrape_documentation is at.
url == doc_urls[idx]

\* Mutation of ProcessPageSend: the request of the next link is issued
\* together with the request of the current one.
ProcessPageSendAhead ==
    /\ pc \in { "LinksDiscovered", "Processing" }
    /\ idx <= Len(doc_urls)
    /\ requests' =
          Append(requests, [ url |-> url, formats |-> "markdown" ])
            \o (IF idx < Len(doc_urls)
                THEN << [ url |-> doc_urls[idx + 1], formats |-> "markdown" ] >>
                ELSE << >>)
    /\ pc' = "AwaitPage"
    /\ UNCHANGED << san_input, san_output, api_key, args, result, output_dir, dirs, files,
                    scrape_response, doc_urls, idx, stdout, stderr >>

\* process_page up to the await of make_api_request
ProcessPageSend ==
    /\ pc \in { "LinksDiscovered", "Processing" }
    /\ idx <= Len(doc_urls)
    /\ requests' = Append(requests, [ url |-> url, formats |-> "markdown" ])
    /\ pc' = "AwaitPage"
    /\ UNCHANGED << san_input, san_output, api_key, args, result, output_dir, dirs, files,
                    scrape_response, doc_urls, idx, stdout, stderr >>

\* Mutation of PageFetchFailed: a placeholder file is left for the page.
PageFetchFailedStub(e) ==
    /\ stderr' = Append(stderr, << "Error processing", url, e >>)
    /\ files' = FsWrite(files,
                        PathJoin(Unwrap(output_dir),
                                 page_prefix \o sanitize_filename(url) \o md_suffix),
                        EmptyFile)
    /\ UNCHANGED << scrape_response, stdout >>

\* process_page when make_api_request fails with e: the ? returns the error
\* to the loop, which prints it.
PageFetchFailed(e) ==
    /\ stderr' = Append(stderr, << "Error processing", url, e >>)
    /\ UNCHANGED << scrape_response, files, stdout >>

\* The warning branch of process_page, on the lines err of eprintln!.
Warned(data, err) ==
    IF IsSome(data.warning)
    THEN Append(err, << "Warning for", url, Unwrap(data.warning) >>)
    ELSE err

\* Mutation of PersistNoMarkdown: a file with an empty body is written.
PersistNoMarkdownWrites(data) ==
    /\ files' = FsWrite(files, PathJoin(Unwrap(output_dir), Filename(data, url)),
                        [ frontmatter |-> create_frontmatter(data, UtcNow),
                          markdown    |-> << >> ])
    /\ stderr' = Warned(data, stderr)
    /\ UNCHANGED stdout

\* process_page for a response without markdown
PersistNoMarkdown(data) ==
    /\ stderr' = Warned(data, Append(stderr, << "No markdown content received for", url >>))
    /\ UNCHANGED << files, stdout >>

\* process_page for a response with markdown: the write succeeds or fails.
PersistMarkdown(data) ==
    LET file_path == PathJoin(Unwrap(output_dir), Filename(data, url))
        content   == [ frontmatter |-> create_frontmatter(data, UtcNow),
                       markdown    |-> Unwrap(data.markdown) ]
    IN \/ /\ files' = FsWrite(files, file_path, content)
          /\ stdout' = Append(stdout, << "Saved", file_path >>)
          /\ stderr' = Warned(data, stderr)
       \/ /\ files' \in FsWriteFailed(files, file_path)
          /\ stderr' = Append(stderr, << "Error processing", url,
                                         "Err: Failed to write file" >>)
          /\ UNCHANGED stdout

\* Mutation of LoopStep: the loop stops at the first failed page.
LoopStepBreak ==
    IF stderr' # stderr /\ stderr'[Len(stderr')][1] = "Error processing"
    THEN /\ pc' = "Done"
         /\ result' = "Ok"
         /\ UNCHANGED idx
    ELSE /\ idx' = idx + 1
         /\ pc' = "Processing"
         /\ UNCHANGED result

\* Mutation of LoopStep: the error of a failed page is returned by the run.
LoopStepPropagate ==
    IF stderr' # stderr /\ stderr'[Len(stderr')][1] = "Error processing"
    THEN /\ pc' = "Done"
         /\ result' = stderr'[Len(stderr')][3]
         /\ UNCHANGED idx
    ELSE /\ idx' = idx + 1
         /\ pc' = "Processing"
         /\ UNCHANGED result

\* The loop of scrape_documentation after process_page returned, with an
\* error or without: on to the next link.
LoopStep ==
    /\ idx' = idx + 1
    /\ pc' = "Processing"
    /\ UNCHANGED result

\* process_page from the completion of make_api_request on, and the
\* handling of its result in the loop of scrape_documentation
ProcessPageRecv ==
    /\ pc = "AwaitPage"
    /\ \/ \E e \in RequestErrors : PageFetchFailed(e)
       \/ \E data \in PageResponses(url) :
             /\ scrape_response' = Some(data)
             /\ IF IsSome(data.markdown)
                THEN PersistMarkdown(data)
                ELSE PersistNoMarkdown(data)
    /\ LoopStep
    /\ UNCHANGED << san_input, san_output, api_key, args, output_dir, dirs, requests, doc_urls >>

\* The loop of scrape_documentation is over: Ok(()) up to main.
Finish ==
    /\ pc \in { "LinksDiscovered", "Processing" }
    /\ idx > Len(doc_urls)
    /\ pc' = "Done"
    /\ result' = "Ok"
    /\ UNCHANGED << san_input, san_output, api_key, args, output_dir, dirs, files, requests,
                    scrape_response, doc_urls, idx, stdout, stderr >>

---------------------------------------------------------------------------

Next ==
    \/ Main
    \/ CreateDomainDirectory
    \/ ExtractDocLinksSend
    \/ ExtractDocLinksRecv
    \/ ProcessPageSend
    \/ ProcessPageRecv
    \/ Finish

Spec == Init /\ [][Next]_vars

\* The run reaches its end: no step waits on anything but the environment's
\* answer, which always comes (as a response or as a failure).
FairSpec == Spec /\ WF_vars(Next)

---------------------------------------------------------------------------
\* Filename Sanitizer on its own: sanitize_filename applied to a string, then
\* to its own result.

\* Characters of the strings: the twelve the sanitizer replaces, the
\* underscore and a letter.
SanChars == { "/", "\\", "?", "%", "*", ":", "|", "\"", "<", ">", ".", " ", "_", "a" }

SanStrings == UNION { [1..n -> SanChars] : n \in 0..MaxSanLen }

SanInit ==
    /\ api_key = TRUE
    /\ args = None
    /\ pc = "Sanitize"
    /\ result = "running"
    /\ output_dir = None
    /\ dirs = { }
    /\ files = { }
    /\ requests = << >>
    /\ scrape_response = None
    /\ doc_urls = << >>
    /\ idx = 1
    /\ stdout = << >>
    /\ stderr = << >>
    /\ san_input \in SanStrings
    /\ san_output = << >>

SanitizeInput ==
    /\ pc = "Sanitize"
    /\ san_output' = << sanitize_filename(san_input) >>
    /\ pc' = "Sanitized"
    /\ UNCHANGED << san_input, api_key, args, result, output_dir, dirs, files,
                    requests, scrape_response, doc_urls, idx, stdout, stderr >>

SanitizeOutput ==
    /\ pc = "Sanitized"
    /\ san_output' = Append(san_output, sanitize_filename(san_output[1]))
    /\ pc' = "Resanitized"
    /\ UNCHANGED << san_input, api_key, args, result, output_dir, dirs, files,
                    requests, scrape_response, doc_urls, idx, stdout, stderr >>

SanNext ==
    \/ SanitizeInput
    \/ SanitizeOutput

SanSpec == SanInit /\ [][SanNext]_vars

---------------------------------------------------------------------------
\* Vocabulary of the properties

\* The URLs of the page requests issued so far, in order.
PageUrls ==
    LET page == SelectSeq(requests, LAMBDA r : r.formats = "markdown")
    IN [ i \in 1..Len(page) |-> page[i].url ]

\* extract_doc_links returned: scrape_documentation printed the page count.
LinksFound == \E i \in 1..Len(stdout) : stdout[i][1] = "Found"

HasDomain(s) == UrlParse(s).ok /\ IsSome(UrlDomain(UrlParse(s).url))

BaseDomain == Unwrap(UrlDomain(UrlParse(start_url).url))

\* The link list of the response held in scrape_response.
LinksOfResponse ==
    IF IsSome(scrape_response) /\ IsSome(Unwrap(scrape_response).links)
    THEN Unwrap(Unwrap(scrape_response).links)
    ELSE << >>

\* The candidate parses and has the domain of the start URL.
InDomain(link) ==
    UrlParse(link).ok /\ UrlDomain(UrlParse(link).url) = Some(BaseDomain)

\* u and v are the same URL up to the fragment.
SamePage(u, v) ==
    /\ u.scheme = v.scheme
    /\ u.host = v.host
    /\ u.path = v.path
    /\ u.query = v.query

\* r is the fragment-stripped form of the candidate link.
IsStrippedFormOf(r, link) ==
    /\ UrlParse(r).ok
    /\ UrlParse(r).url.fragment = None
    /\ SamePage(UrlParse(r).url, UrlParse(link).url)

\* The last line printed to stderr in this step reports a page error.
IsPageError(line) == line[1] = "Error processing"

\* This step is the failure of the extraction request of the current page.
RequestFailedStep ==
    /\ pc = "AwaitPage"
    /\ \E e \in RequestErrors : stderr' = Append(stderr, << "Error processing", url, e >>)

\* This step is the arrival of the response of the current page.
ResponseStep == pc = "AwaitPage" /\ ~ RequestFailedStep

Paths(fs) == { f.path : f \in fs }

---------------------------------------------------------------------------
\* C1: once Link Discovery has returned, process_page is invoked exactly
\* once for every link, in the order of the list, whatever the outcome of
\* the pages before: the page requests issued are always a prefix of
\* doc_urls, the loop can always take its next step, and the run ends only
\* when the page requests issued are the whole of doc_urls.
C1_EveryLinkProcessedOnce ==
    /\ LinksFound => /\ Len(PageUrls) <= Len(doc_urls)
                     /\ PageUrls = SubSeq(doc_urls, 1, Len(PageUrls))
    /\ LinksFound /\ pc = "Done" => PageUrls = doc_urls
    /\ pc \in { "LinksDiscovered", "Processing" } =>
          /\ Len(PageUrls) = idx - 1
          /\ ENABLED (ProcessPageSend \/ Finish)
    /\ pc = "AwaitPage" => /\ Len(PageUrls) = idx
                           /\ ENABLED ProcessPageRecv

\* A run of two links has ended and its first link had failed.
C1_Witness ==
    /\ pc = "Done"
    /\ Len(doc_urls) = 2
    /\ PageUrls = doc_urls
    /\ Len(stderr) >= 1
    /\ IsPageError(stderr[1])
    /\ stderr[1][2] = doc_urls[1]

C3_NoRequestForBadStartUrl ==
    IsSome(args) /\ ~ HasDomain(start_url) => requests = << >>

\* C4: Link Discovery returns each underlying page exactly once: every
\* candidate that parses and has the start URL's domain has exactly one
\* entry of doc_urls that is its fragment-stripped form, and no string is
\* twice in doc_urls.
C4_EachPageOnce ==
    pc = "LinksDiscovered" =>
       /\ \A i \in 1..Len(LinksOfResponse) :
             InDomain(LinksOfResponse[i]) =>
                Cardinality({ k \in 1..Len(doc_urls) :
                                IsStrippedFormOf(doc_urls[k], LinksOfResponse[i]) }) = 1
       /\ \A j, k \in 1..Len(doc_urls) : doc_urls[j] = doc_urls[k] => j = k

\* Two different candidates of the start URL's domain were merged into one link.
C4_Witness ==
    /\ pc = "LinksDiscovered"
    /\ Len(doc_urls) = 1
    /\ \E i, j \in 1..Len(LinksOfResponse) :
          /\ LinksOfResponse[i] # LinksOfResponse[j]
          /\ InDomain(LinksOfResponse[i])
          /\ InDomain(LinksOfResponse[j])

\* C5: every link Link Discovery returns has exactly the start URL's domain
\* and no fragment and comes from a candidate of that domain; candidates that
\* do not parse or are of another domain are dropped, and they never make
\* Link Discovery fail: when a response arrived, discovery failed only if
\* the start URL has no domain.
C5_SameDomainNoFragment ==
    /\ pc = "LinksDiscovered" =>
          \A k \in 1..Len(doc_urls) :
             /\ UrlParse(doc_urls[k]).ok
             /\ UrlDomain(UrlParse(doc_urls[k]).url) = Some(BaseDomain)
             /\ UrlParse(doc_urls[k]).url.fragment = None
             /\ \E i \in 1..Len(LinksOfResponse) :
                   /\ InDomain(LinksOfResponse[i])
                   /\ IsStrippedFormOf(doc_urls[k], LinksOfResponse[i])
    /\ IsSome(scrape_response) /\ ~ LinksFound => ~ HasDomain(start_url)

\* A response with a candidate to drop and a candidate to keep was filtered.
C5_Witness ==
    /\ pc = "LinksDiscovered"
    /\ Len(LinksOfResponse) = 2
    /\ Len(doc_urls) = 1
    /\ \E i \in 1..2 : ~ InDomain(LinksOfResponse[i])

\* C6: when Link Discovery fails (the request fails or the start URL has no
\* domain) the run ends at once with a discovery error, with no page request
\* issued and no file written, and nothing happens after the end of a run.
C6_DiscoveryFailureIsFatal ==
    [][ /\ pc = "AwaitLinks" =>
             IF IsSome(scrape_response') /\ HasDomain(start_url)
             THEN pc' = "LinksDiscovered"
             ELSE /\ pc' = "Done"
                  /\ result' \in DiscoveryErrors
                  /\ files' = { }
                  /\ PageUrls' = << >>
        /\ pc # "Done"
      ]_vars

\* A run has ended on a failed link-discovery request.
C6_Witness ==
    /\ pc = "Done"
    /\ result \in RequestErrors
    /\ Len(requests) = 1
    /\ files = { }

\* C7: when the Output Directory Resolver fails the run ends with a
\* directory error and no extraction request is ever issued.
C7_DirectoryFailureIsFatal ==
    /\ output_dir = None => requests = << >>
    /\ output_dir = None /\ pc \notin { "Main", "Start" } =>
          /\ pc = "Done"
          /\ result \in ConfigErrors \cup DirectoryErrors

\* A run has ended on a directory error.
C7_Witness ==
    /\ pc = "Done"
    /\ result \in DirectoryErrors
    /\ requests = << >>

\* The filename of the claim: the title when it is present and not empty.
ClaimedFilename(data, u) ==
    IF IsSome(data.title) /\ Unwrap(data.title) # << >>
    THEN sanitize_filename(Unwrap(data.title)) \o md_suffix
    ELSE page_prefix \o sanitize_filename(u) \o md_suffix

\* C8: the file a page is saved to is sanitize(title) + ".md" when the
\* response has a non-empty title and "page_" + sanitize(url) + ".md" when
\* the title is absent or empty.
C8_FilenameChoice ==
    [][ pc = "AwaitPage" /\ stdout' # stdout =>
           stdout'[Len(stdout')] =
              << "Saved", PathJoin(Unwrap(output_dir),
                                   ClaimedFilename(Unwrap(scrape_response'), url)) >>
      ]_vars

\* C9: a response without markdown writes no file, is no page error, and the
\* loop goes on to the next link.
C9_NoMarkdownIsSuccess ==
    [][ ResponseStep /\ ~ IsSome(Unwrap(scrape_response').markdown) =>
           /\ files' = files
           /\ stdout' = stdout
           /\ \A i \in (Len(stderr) + 1)..Len(stderr') : ~ IsPageError(stderr'[i])
           /\ idx' = idx + 1
           /\ pc' = "Processing"
           /\ result' = "running"
      ]_vars

\* The first of two links came back without markdown and the second link
\* was requested.
C9_Witness ==
    /\ Len(doc_urls) = 2
    /\ Len(PageUrls) = 2
    /\ Len(stderr) >= 1
    /\ stderr[1] = << "No markdown content received for", doc_urls[1] >>

Disallowed == { "/", "\\", "?", "%", "*", ":", "|", "\"", "<", ">", ".", " " }

\* C11: for every input string sanitize_filename returns a string, the
\* string has none of the disallowed characters, and sanitizing it again
\* returns it unchanged.
C11_SanitizerTotalCleanIdempotent ==
    /\ pc = "Sanitized" => Len(san_output) = 1
    /\ pc = "Resanitized" => Len(san_output) = 2 /\ san_output[2] = san_output[1]
    /\ \A k \in 1..Len(san_output) :
          /\ DOMAIN san_output[k] = 1..Len(san_output[k])
          /\ \A i \in 1..Len(san_output[k]) : san_output[k][i] \notin Disallowed

\* A string with disallowed characters and a letter was sanitized twice.
C11_Witness ==
    /\ pc = "Resanitized"
    /\ \E i \in 1..Len(san_input) : san_input[i] \in Disallowed
    /\ \E i \in 1..Len(san_input) : san_input[i] = "a"
    /\ san_output[1] # san_input

PathSeparators == { "/", "\\" }

\* path is dir, a separator, and one more component.
IsDirectChild(path, dir) ==
    /\ Len(path) > Len(dir) + 1
    /\ SubSeq(path, 1, Len(dir)) = dir
    /\ path[Len(dir) + 1] = "/"
    /\ \A i \in (Len(dir) + 2)..Len(path) : path[i] \notin PathSeparators

\* C12: a run has one output directory, a single path component named after
\* the start URL's domain with its disallowed characters replaced, and every
\* file on disk is a direct child of it: no chosen filename holds a path
\* separator, also for a title or a URL that has one.
C12_FilesInOutputDirectory ==
    /\ IsSome(output_dir) =>
          /\ dirs = { Unwrap(output_dir) }
          /\ \A i \in 1..Len(Unwrap(output_dir)) : Unwrap(output_dir)[i] \notin PathSeparators
    /\ output_dir = None => dirs = { } /\ files = { }
    /\ pc = "DirectoryResolved" /\ HasDomain(start_url) =>
          Unwrap(output_dir) =
             [ i \in 1..Len(BaseDomain) |->
                  IF BaseDomain[i] \in Disallowed THEN "_" ELSE BaseDomain[i] ]
    /\ \A f \in files : IsDirectChild(f.path, Unwrap(output_dir))

\* Two files are on disk, one named after a title that has a path separator
\* and one named after its URL.
C12_Witness ==
    /\ Cardinality(files) = 2
    /\ \E f \in files :
          /\ Len(f.content.frontmatter) >= 2
          /\ f.content.frontmatter[2][1] = "title"
          /\ f.content.frontmatter[2][2] = << "a", "/", "b" >>
    /\ \E f \in files :
          /\ Len(f.content.frontmatter) >= 2
          /\ f.content.frontmatter[2][1] # "title"

\* The state of the Crawl Orchestrator a position belongs to, as a rank:
\* Start, DirectoryResolved, LinksDiscovered, Processing, Done.
PhaseRank(p) ==
    CASE p \in { "Main", "Start" }                   -> 1
      [] p \in { "DirectoryResolved", "AwaitLinks" } -> 2
      [] p = "LinksDiscovered"                       -> 3
      [] p \in { "AwaitPage", "Processing" }         -> 4
      [] p = "Done"                                  -> 5

\* A request is issued and its answer is awaited.
InFlight(p) == p \in { "AwaitLinks", "AwaitPage" }

\* The link-discovery requests issued so far.
LinksRequests == SelectSeq(requests, LAMBDA r : r.formats = "links")

\* C13: a run only moves forward through Start, DirectoryResolved,
\* LinksDiscovered, Processing, Done; requests are issued one at a time and
\* never while another is awaited; at most one link-discovery request is
\* issued, exactly one once the links are there, and it is the first
\* request; a page request is issued only after Link Discovery returned and
\* after every page requested before has been dealt with.
C13_LinearSequentialRun ==
    [][ /\ PhaseRank(pc) <= PhaseRank(pc')
        /\ requests' # requests =>
              /\ ~ InFlight(pc)
              /\ InFlight(pc')
              /\ Len(requests') = Len(requests) + 1
              /\ SubSeq(requests', 1, Len(requests)) = requests
        /\ InFlight(pc) => ~ InFlight(pc')
        /\ Len(LinksRequests') <= 1
        /\ LinksFound' => Len(LinksRequests') = 1 /\ requests'[1].formats = "links"
        /\ PageUrls' # PageUrls =>
              /\ LinksFound
              /\ pc \in { "LinksDiscovered", "Processing" }
              /\ idx = Len(PageUrls) + 1
      ]_vars

\* A run of two links went through to the end: three requests, the first
\* for the links.
C13_Witness ==
    /\ pc = "Done"
    /\ result = "Ok"
    /\ Len(doc_urls) = 2
    /\ Len(requests) = 3
    /\ requests[1].formats = "links"

\* This step is a successful write of the current page.
SavedStep == pc = "AwaitPage" /\ stdout' # stdout

\* C14: a successful write replaces whatever file was at its path, without a
\* page error, also when another page of the run had written that path; and
\* until the next successful write to its path a file keeps what the last
\* page written to it put there, so that at the end of the run it holds the
\* body of the last page that mapped to its name and was written.
C14_LastWriterWins ==
    [][ /\ SavedStep =>
              /\ \E f \in files' :
                    /\ f.path = stdout'[Len(stdout')][2]
                    /\ f.content.markdown = Unwrap(Unwrap(scrape_response').markdown)
                    /\ \A g \in files' : g.path = f.path => g = f
              /\ \A f \in files : f.path # stdout'[Len(stdout')][2] => f \in files'
              /\ \A i \in (Len(stderr) + 1)..Len(stderr') : ~ IsPageError(stderr'[i])
        /\ ~ SavedStep => \A f \in files : f \in files'
      ]_vars

====
